---- MODULE Spec2Model ----
(***************************************************************************)
(* A model of the retrieval-augmented generation core of the QA agent:     *)
(*   backend/app/knowledge_base/text_processor.py   (chunking)             *)
(*   backend/app/knowledge_base/embeddings.py       (embedding)            *)
(*   backend/app/knowledge_base/vector_store.py     (the ChromaDB index)   *)
(*   backend/app/knowledge_base/rag_service.py      (ingest, search, ...)  *)
(*   backend/app/test_generation/test_case_generator.py                    *)
(*                                                                         *)
(* Abstractions.  A document's content is a sequence of tokens, each a     *)
(* word or a blank; the text splitter yields one chunk per word.  An       *)
(* embedding is an angle in units of 60 degrees, so the cosine distance    *)
(* between two embeddings is 0, 1/2, 3/2 or 2; distances are carried in    *)
(* halves and similarities as exact fractions <<num, den>>.  A text        *)
(* returned by the generation capability is a sequence of lexical tokens   *)
(* (fences, brackets, prose, object literals).                             *)
(***************************************************************************)
EXTENDS Integers, Sequences, FiniteSets, TLC

(***************************************************************************)
(* Bounds of the model.                                                    *)
(***************************************************************************)
\* most words (chunks) of a document
MaxChunks == 2
\* largest top_k a caller passes explicitly
MaxTopK == 2
\* longest body of a generation output, in lexical tokens
MaxRespLen == 4
\* most documents of one batch ingestion
MaxBatch == 2
\* most texts of one embed_batch call
MaxTexts == 3
\* largest max_test_cases a caller passes
MaxCount == 3

(***************************************************************************)
(* Program constants (backend/app/config.py).                              *)
(***************************************************************************)
top_k_retrieval == 5
min_similarity_score == <<1, 2>>

None == "None"
\* an absent min_similarity argument (a similarity is a fraction <<num, den>>)
NoneSim == <<>>

Filenames == {"spec.md", "ui.md"}
Words == {"a", "c"}
Blank == " "
ContentTokens == Words \cup {Blank}
QueryTexts == {"a", "b"}

SeqsUpTo(S, n) == UNION {[1..k -> S] : k \in 0..n}

\* contents that are empty or hold blanks
BlankContents == {<<Blank>>, <<Blank, Blank>>, <<Blank, "a">>, <<"c", Blank>>}
\* the contents "spec.md" is ingested with, and those of the other document
Contents == SeqsUpTo(Words, MaxChunks) \cup BlankContents
OtherContents == {<<"a">>, <<"c">>, <<Blank>>}
\* contents of the calls during which a collaborator fails
FaultContents == {<<>>, <<"a">>, <<"c", "a">>}

\* what may go wrong in the collaborators during one call
IngestFaults == {"embed", "add", "store"}
SearchFaults == {"embed", "store"}

VARIABLES
    collection,   \* the records of the live ChromaDB collection
    store_cid,    \* identity of the live collection in the persistent store
    kb_cid,       \* collection identity held by the API's RAGService
    gen_cid,      \* collection identity held by the TestCaseGenerator's RAGService
    call,         \* the operation last invoked, with its arguments
    ret,          \* what that operation returned
    deleted_count, \* the count its delete_by_filename call returned, if any
    threads       \* the calls in flight at once, each with its position

vars ==
    <<collection, store_cid, kb_cid, gen_cid, call, ret, deleted_count, threads>>

(***************************************************************************)
(* text_processor.py                                                       *)
(***************************************************************************)
IsBlankText(content) == \A i \in 1..Len(content) : content[i] = Blank

RECURSIVE LStrip(_)
LStrip(s) == IF s # <<>> /\ Head(s) = Blank THEN LStrip(Tail(s)) ELSE s

RECURSIVE RStrip(_)
RStrip(s) ==
    IF s # <<>> /\ s[Len(s)] = Blank THEN RStrip(SubSeq(s, 1, Len(s) - 1)) ELSE s

\* _clean_text: ends with cleaned.strip()
CleanText(content) == RStrip(LStrip(content))

IsWord(t) == t # Blank

\* RecursiveCharacterTextSplitter.split_text: one chunk per word, blanks dropped
SplitText(cleaned) == SelectSeq(cleaned, IsWord)

ChunkId(filename, idx) == <<filename, idx>>

\* {**f, **g}: the members of both dictionaries, those of g where a key is
\* in both
Merge(f, g) ==
    [k \in DOMAIN f \cup DOMAIN g |-> IF k \in DOMAIN g THEN g[k] ELSE f[k]]

\* document_loader._load_markdown: the metadata of a loaded Markdown file
LoaderMetadata(filename) ==
    [source_type |-> "markdown", original_format |-> "md"]

\* a chunk numbered from one
TextChunkFromOne(chunk_text, filename, idx, count, metadata) ==
    [text            |-> chunk_text,
     chunk_id        |-> ChunkId(filename, idx + 1),
     source_filename |-> filename,
     chunk_index     |-> idx + 1,
     metadata        |-> Merge(metadata, [chunk_count |-> ToString(count),
                                          char_count  |-> "1"])]

\* process_document, lines 105-119: the chunk made of a piece of text, its
\* metadata the document's with chunk_count and char_count (every word of
\* the model is one character long), both as str() writes them
TextChunk(chunk_text, filename, idx, count, metadata) ==
    [text            |-> chunk_text,
     chunk_id        |-> ChunkId(filename, idx),
     source_filename |-> filename,
     chunk_index     |-> idx,
     metadata        |-> Merge(metadata, [chunk_count |-> ToString(count),
                                          char_count  |-> "1"])]

\* a chunker that makes a chunk of every token, blank or not
ProcessDocumentOfBlanks(content, filename, metadata) ==
    [i \in 1..Len(content) |->
        TextChunk(content[i], filename, i - 1, Len(content), metadata)]

\* process_document: the chunks of a document, in split order
ProcessDocument(content, filename, metadata) ==
    IF content = <<>> \/ IsBlankText(content)
    THEN <<>>
    ELSE LET text_chunks == SplitText(CleanText(content))
         IN  [i \in 1..Len(text_chunks) |->
                 TextChunk(text_chunks[i], filename, i - 1, Len(text_chunks),
                           metadata)]

(***************************************************************************)
(* embeddings.py                                                           *)
(***************************************************************************)
\* np.zeros(dimension), which is no angle
ZeroVector == -1

\* SentenceTransformer.encode of one text: its angle, in units of 60 degrees
Encode(text) ==
    CASE text = "a" -> 0
      [] text = "b" -> 1
      [] text = "c" -> 3

IsValidText(text) == text # "" /\ text # Blank

\* embed_query / embed_text
EmbedText(text) == IF IsValidText(text) THEN Encode(text) ELSE ZeroVector

\* embed_batch: empty texts are filtered out before encoding
EmbedBatch(texts) ==
    LET valid_texts == SelectSeq(texts, IsValidText)
    IN  IF texts = <<>> THEN <<>>
        ELSE IF valid_texts = <<>> THEN [i \in 1..Len(texts) |-> ZeroVector]
        ELSE [i \in 1..Len(valid_texts) |-> Encode(valid_texts[i])]

Abs(x) == IF x < 0 THEN -x ELSE x

\* the collection's cosine distance ("hnsw:space": "cosine"), in halves:
\* 1 - cos(0) = 0, 1 - cos(60) = 1/2, 1 - cos(120) = 3/2, 1 - cos(180) = 2
CosineDistance(e1, e2) ==
    IF e1 = ZeroVector \/ e2 = ZeroVector THEN 2
    ELSE CASE Abs(e1 - e2) = 0 -> 0
           [] Abs(e1 - e2) = 1 -> 1
           [] Abs(e1 - e2) = 2 -> 3
           [] Abs(e1 - e2) = 3 -> 4

(***************************************************************************)
(* Exact fractions <<num, den>> with den > 0, for similarity scores.       *)
(***************************************************************************)
FracGeq(x, y) == x[1] * y[2] >= y[1] * x[2]

\* rag_service.search: 1.0 / (1.0 + d), for a distance d given in halves
Similarity(d) == <<2, 2 + d>>

(***************************************************************************)
(* vector_store.py: operations on the records of a collection.             *)
(***************************************************************************)
Ids(records) == {r.id : r \in records}

\* add_chunks, "Prepare data for ChromaDB": one record per chunk; lines
\* 109-113 write the chunk's own metadata over source_filename and
\* chunk_index
ChunkRecord(chunk, embedding) ==
    [id        |-> chunk.chunk_id,
     document  |-> chunk.text,
     embedding |-> embedding,
     metadata  |-> Merge([source_filename |-> chunk.source_filename,
                          chunk_index     |-> chunk.chunk_index],
                         chunk.metadata)]

\* collection.add: a record whose id is already stored is ignored
CollectionAdd(records, new) ==
    records \cup {r \in new : r.id \notin Ids(records)}

\* add_chunks raises ValueError when the two lists differ in length
AddChunksRaises(chunks, embeddings) == Len(chunks) # Len(embeddings)

AddChunks(records, chunks, embeddings) ==
    IF chunks = <<>> THEN records
    ELSE CollectionAdd(records,
             {ChunkRecord(chunks[i], embeddings[i]) : i \in 1..Len(chunks)})

\* a lookup that forgets its filter
GetWhereAnything(records, filename) == records

\* collection.get(where={"source_filename": filename})
GetWhere(records, filename) ==
    {r \in records : r.metadata.source_filename = filename}

\* a lookup under a metadata key no record carries
SearchByMetadataWrongKey(records, filename) == FALSE

\* search_by_metadata({"source_filename": filename}, limit=1): truthy or not
SearchByMetadata(records, filename) == GetWhere(records, filename) # {}

\* a deletion that stops after the first record found
DeleteByFilenameFirstOnly(records, filename) ==
    {r \in records :
        r.metadata.source_filename # filename \/ r.metadata.chunk_index # 0}

\* a deletion that leaves every record where it is
DeleteByFilenameNothing(records, filename) == records

\* delete_by_filename: the records left, and the count returned
DeleteByFilenameRecords(records, filename) ==
    records \ GetWhere(records, filename)

DeleteByFilenameCount(records, filename) ==
    Cardinality(GetWhere(records, filename))

\* the order in which equally distant records are listed: by filename, then
\* by chunk index
FileOrder(filename) == IF filename = "spec.md" THEN 0 ELSE 1

Before(r, o, q) ==
    LET dr == CosineDistance(q, r.embedding)
        do == CosineDistance(q, o.embedding)
    IN  \/ dr < do
        \/ /\ dr = do
           /\ \/ FileOrder(r.id[1]) < FileOrder(o.id[1])
              \/ r.id[1] = o.id[1] /\ r.id[2] <= o.id[2]

RECURSIVE ByDistance(_, _)
\* the records of a set, nearest first
ByDistance(records, q) ==
    IF records = {} THEN <<>>
    ELSE LET first == CHOOSE r \in records : \A o \in records : Before(r, o, q)
         IN  <<first>> \o ByDistance(records \ {first}, q)

\* collection.query: the sets of records it may return, the n nearest ones;
\* which of several equally distant records make the cut is left open
NearestSets(records, q, n) ==
    {T \in SUBSET records :
        /\ Cardinality(T) = IF n < Cardinality(records) THEN n
                            ELSE Cardinality(records)
        /\ \A r \in T, o \in records \ T :
               CosineDistance(q, r.embedding) <= CosineDistance(q, o.embedding)}

\* a query that returns every candidate, whatever n_results
QueryEverything(records, q, n_results, where_filter) ==
    {ByDistance(IF where_filter = None THEN records
                ELSE GetWhere(records, where_filter), q)}

\* query(query_embedding, n_results, where_filter): the possible result lists,
\* each in ascending distance
Query(records, q, n_results, where_filter) ==
    LET candidates == IF where_filter = None THEN records
                      ELSE GetWhere(records, where_filter)
    IN  {ByDistance(T, q) : T \in NearestSets(candidates, q, n_results)}

\* get_collection_stats, line 305: collection.peek(limit=100)
peek_limit == 100

\* collection.peek(limit): the first records in the order of the store, in
\* which the records of one document stand together by chunk index; which
\* document's records come first is left open
Peek(records, limit) ==
    {{r \in records :
         Cardinality({o \in records :
             \/ /\ o.metadata.source_filename = first
                /\ r.metadata.source_filename # first
             \/ /\ o.metadata.source_filename = r.metadata.source_filename
                /\ o.metadata.chunk_index < r.metadata.chunk_index}) < limit} :
       first \in IF records = {} THEN {None}
                  ELSE {r.metadata.source_filename : r \in records}}

\* get_collection_stats, lines 302-318, for the sample peek returned
GetCollectionStats(records, sample) ==
    [total_chunks   |-> Cardinality(records),
     unique_sources |-> Cardinality({r.metadata.source_filename : r \in sample})]

(***************************************************************************)
(* rag_service.py                                                          *)
(***************************************************************************)
\* a store call through a handle fails when the store is unavailable or the
\* handle names a collection that has been deleted
StoreFails(cid, fault) == fault = "store" \/ cid # store_cid

\* ingest_document, lines 73-85: the existence check of the non-overwrite path;
\* search_by_metadata returns [] when the store call raises
AlreadyExists(records, cid, filename, fault) ==
    ~StoreFails(cid, fault) /\ SearchByMetadata(records, filename)

\* ingest_document from line 73 on, and the body of the loop of
\* _ingest_loaded_documents: the records afterwards, the dictionary returned
\* and the deleted_count of line 88
IngestLoadedOutcome(records, cid, filename, content, metadata, overwrite, fault) ==
    LET error == [status |-> "error", filename |-> filename]
        chunks == ProcessDocument(content, filename, metadata)
        embeddings == EmbedBatch([i \in 1..Len(chunks) |-> chunks[i].text])
        cleared == IF overwrite THEN DeleteByFilenameRecords(records, filename)
                   ELSE records
        deleted == IF overwrite THEN DeleteByFilenameCount(records, filename)
                   ELSE 0
    IN  IF fault = "load"
        THEN [records |-> records, deleted_count |-> 0, result |-> error]
        ELSE IF ~overwrite /\ AlreadyExists(records, cid, filename, fault)
        THEN [records |-> records, deleted_count |-> 0,
              result  |-> [status |-> "skipped", filename |-> filename]]
        ELSE IF overwrite /\ StoreFails(cid, fault)
        THEN [records |-> records, deleted_count |-> 0, result |-> error]
        ELSE IF chunks = <<>>
        THEN [records |-> cleared, deleted_count |-> deleted,
              result  |-> error]
        ELSE IF fault = "embed"
        THEN [records |-> cleared, deleted_count |-> deleted,
              result  |-> error]
        ELSE IF AddChunksRaises(chunks, embeddings)
                \/ fault = "add" \/ StoreFails(cid, fault)
        THEN [records |-> cleared, deleted_count |-> deleted,
              result  |-> error]
        ELSE [records |-> AddChunks(cleared, chunks, embeddings),
              deleted_count |-> deleted,
              result  |-> [status         |-> "success",
                           filename       |-> filename,
                           chunks_created |-> Len(chunks)]]

\* ingest_document of a Markdown file, which load_document loads first
IngestOutcome(records, cid, filename, content, overwrite, fault) ==
    IngestLoadedOutcome(records, cid, filename, content,
                        LoaderMetadata(filename), overwrite, fault)

RECURSIVE IngestEachAborting(_, _, _, _)
\* a batch ingestion that gives up at the first document that fails
IngestEachAborting(records, cid, documents, overwrite) ==
    IF documents = <<>>
    THEN [records |-> records, results |-> <<>>]
    ELSE LET doc  == Head(documents)
             out  == IngestOutcome(records, cid, doc.filename, doc.content,
                                   overwrite, doc.fault)
             rest == IngestEachAborting(out.records, cid, Tail(documents),
                                        overwrite)
         IN  IF out.result.status = "error"
             THEN [records |-> out.records, results |-> <<out.result>>]
             ELSE [records |-> rest.records,
                   results |-> <<out.result>> \o rest.results]

RECURSIVE IngestEach(_, _, _, _)
\* the loop of ingest_multiple, lines 156-159, and of
\* _ingest_loaded_documents, lines 230-279: every document in turn, each
\* with a result of its own
IngestEach(records, cid, documents, overwrite) ==
    IF documents = <<>>
    THEN [records |-> records, results |-> <<>>]
    ELSE LET doc  == Head(documents)
             out  == IngestOutcome(records, cid, doc.filename, doc.content,
                                   overwrite, doc.fault)
             rest == IngestEach(out.records, cid, Tail(documents), overwrite)
         IN  [records |-> rest.records,
              results |-> <<out.result>> \o rest.results]

CountStatus(results, status) ==
    Cardinality({i \in 1..Len(results) : results[i].status = status})

RECURSIVE SumChunksCreated(_)
\* sum(r.get('chunks_created', 0) for r in results)
SumChunksCreated(results) ==
    IF results = <<>> THEN 0
    ELSE (IF "chunks_created" \in DOMAIN Head(results)
          THEN Head(results).chunks_created ELSE 0)
         + SumChunksCreated(Tail(results))

\* the summary of ingest_multiple and of _ingest_loaded_documents
Summary(documents, results) ==
    [total_documents |-> Len(documents),
     successful      |-> CountStatus(results, "success"),
     skipped         |-> CountStatus(results, "skipped"),
     failed          |-> CountStatus(results, "error"),
     total_chunks    |-> SumChunksCreated(results),
     results         |-> results]

\* search, lines 315-316: "x or default"
EffectiveTopK(top_k) == IF top_k = 0 THEN top_k_retrieval ELSE top_k

IsFalsySim(min_similarity) ==
    min_similarity = NoneSim \/ min_similarity[1] = 0

EffectiveMinSimilarity(min_similarity) ==
    IF IsFalsySim(min_similarity) THEN min_similarity_score ELSE min_similarity

\* search, lines 339-352: distances to similarities, then the threshold filter
SearchHit(r, q) ==
    [text             |-> r.document,
     metadata         |-> r.metadata,
     similarity_score |-> Similarity(CosineDistance(q, r.embedding)),
     source_filename  |-> r.metadata.source_filename]

\* a search that forgets the threshold
FilterBySimilarityKeepAll(hits, min_similarity) == hits

FilterBySimilarity(hits, min_similarity) ==
    LET Keep(h) == FracGeq(h.similarity_score, min_similarity)
    IN  SelectSeq(hits, Keep)

\* search: the lists it may return (an exception of a collaborator gives [])
SearchResults(records, cid, query, top_k, min_similarity, source_filter, fault) ==
    IF fault = "embed" \/ StoreFails(cid, fault)
    THEN {<<>>}
    ELSE LET q == EmbedText(query)
         IN  {FilterBySimilarity([i \in 1..Len(found) |-> SearchHit(found[i], q)],
                                 EffectiveMinSimilarity(min_similarity)) :
                 found \in Query(records, q, EffectiveTopK(top_k), source_filter)}

\* a delete_document that reports success whenever nothing raised
DeleteDocumentResultAlways(records, cid, filename, fault) ==
    ~StoreFails(cid, fault)

\* delete_document: True when at least one record was deleted
DeleteDocumentResult(records, cid, filename, fault) ==
    IF StoreFails(cid, fault) THEN FALSE
    ELSE DeleteByFilenameCount(records, filename) > 0

(***************************************************************************)
(* Texts of the generation capability, as sequences of lexical tokens.     *)
(*   "FJ"  the fence opener ```json        "F"  a bare fence ```           *)
(*   "["   "]"   brackets                  "w"  prose that is no JSON      *)
(*   an object literal {...}, one token per kind of object:                *)
(*     oNeg   all required fields, test_type "Negative"                    *)
(*     oAbs   all required fields, no test_type                            *)
(*     oOdd   all required fields, test_type "boundary"                    *)
(*     oNull  all required fields, test_type null                          *)
(*     oMiss  no grounded_in, test_type "negative"                         *)
(*     oNest  all required fields, test_type "edge_case", and a member     *)
(*            whose value is a list of objects, so that its text holds     *)
(*            "[{" and "}]"                                                *)
(*     oVal   a validation result: valid, issues, suggestions and          *)
(*            completeness_score, and no other member                      *)
(* White space and commas between tokens are left out.                     *)
(***************************************************************************)
Objects == {"oNeg", "oAbs", "oOdd", "oNull", "oMiss", "oNest"}
BodyTokens == {"[", "]", "w"} \cup Objects
Bodies == SeqsUpTo(BodyTokens, MaxRespLen)

\* a body as it stands, inside a fenced block, with prose around the block,
\* after an opener that is never closed, or before a fenced block of prose
Responses ==
    Bodies
    \cup {<<"FJ">> \o b \o <<"F">> : b \in Bodies}
    \cup {<<"w", "FJ">> \o b \o <<"F", "w">> : b \in Bodies}
    \cup {<<"FJ">> \o b : b \in Bodies}
    \cup {b \o <<"FJ", "w", "F">> : b \in Bodies}

required_fields ==
    {"test_id", "feature", "test_scenario", "test_steps", "expected_result",
     "grounded_in"}

\* the keys of an object literal
Keys(o) ==
    CASE o = "oAbs"  -> required_fields
      [] o = "oMiss" -> (required_fields \ {"grounded_in"}) \cup {"test_type"}
      [] o = "inner" -> {"x"}
      [] o = "oVal"  -> {"valid", "issues", "suggestions", "completeness_score"}
      [] OTHER       -> required_fields \cup {"test_type"}

\* the value of its test_type member
TestTypeValue(o) ==
    CASE o = "oNeg"  -> "Negative"
      [] o = "oOdd"  -> "boundary"
      [] o = "oNull" -> "null"
      [] o = "oMiss" -> "negative"
      [] o = "oNest" -> "edge_case"

\* str.lower()
Lower(str) == IF str = "Negative" THEN "negative" ELSE str

IsFence(t) == t \in {"FJ", "F"}

Min(S) == CHOOSE x \in S : \A y \in S : x <= y

\* re.search(r'```json\s*(.*?)\s*```'): the leftmost opener and the first
\* fence after it (an opener begins with a fence, so it closes a block too)
FenceOpen(text) ==
    {i \in 1..Len(text) :
        text[i] = "FJ" /\ \E j \in (i + 1)..Len(text) : IsFence(text[j])}

HasFencedBlock(text) == FenceOpen(text) # {}

FencedGroup(text) ==
    LET i == Min(FenceOpen(text))
        j == Min({k \in (i + 1)..Len(text) : IsFence(text[k])})
    IN  SubSeq(text, i + 1, j - 1)

\* re.search(r'\[\s*\{.*?\}\s*\]'): where a match may begin and end.  It
\* begins at a "[" that an object follows (or inside oNest, at its inner
\* list) and ends at the first "}" that a "]" follows (inside oNest at the
\* latest).
ArrayStart(text) ==
    {i \in 1..Len(text) :
        \/ text[i] = "oNest"
        \/ text[i] = "[" /\ i < Len(text) /\ text[i + 1] \in Objects}

ArrayEnd(text, i) ==
    {j \in i..Len(text) :
        \/ text[j] = "oNest"
        \/ j > i + 1 /\ text[j] = "]" /\ text[j - 1] \in Objects}

HasArrayLiteral(text) ==
    \E i \in ArrayStart(text) : ArrayEnd(text, i) # {}

\* the text matched: "inner" is the list inside an oNest, "cut" a match that
\* ends inside an oNest, which leaves its literal unfinished
ArrayGroup(text) ==
    LET i == Min({k \in ArrayStart(text) : ArrayEnd(text, k) # {}})
        j == Min(ArrayEnd(text, i))
    IN  IF text[i] = "oNest" THEN <<"[", "inner", "]">>
        ELSE IF text[j] = "oNest" THEN SubSeq(text, i, j - 1) \o <<"cut">>
        ELSE SubSeq(text, i, j)

(***************************************************************************)
(* json.loads on a token sequence: a value is an object literal or a       *)
(* bracketed list of values; anything else is a JSONDecodeError.           *)
(***************************************************************************)
ObjectValues == Objects \cup {"inner", "oVal"}

RECURSIVE ValueEnd(_, _)
RECURSIVE ListEnd(_, _)
\* the index just past the value that begins at i, or 0 when there is none
ValueEnd(toks, i) ==
    IF i > Len(toks) THEN 0
    ELSE IF toks[i] \in ObjectValues THEN i + 1
    ELSE IF toks[i] = "[" THEN ListEnd(toks, i + 1)
    ELSE 0

\* the index just past the "]" that closes the list whose next element is at i
ListEnd(toks, i) ==
    IF i > Len(toks) THEN 0
    ELSE IF toks[i] = "]" THEN i + 1
    ELSE LET e == ValueEnd(toks, i)
         IN  IF e = 0 THEN 0 ELSE ListEnd(toks, e)

RECURSIVE ListItems(_, _)
\* the elements of a valid list, from the element at i on; a nested list is "list"
ListItems(toks, i) ==
    IF toks[i] = "]" THEN <<>>
    ELSE <<IF toks[i] = "[" THEN "list" ELSE toks[i]>>
             \o ListItems(toks, ValueEnd(toks, i))

JsonLoads(toks) ==
    IF ValueEnd(toks, 1) # Len(toks) + 1
    THEN [raised |-> TRUE]
    ELSE IF toks[1] = "["
    THEN [raised |-> FALSE, is_list |-> TRUE, items |-> ListItems(toks, 2)]
    ELSE [raised |-> FALSE, is_list |-> FALSE, object |-> toks[1]]

(***************************************************************************)
(* test_case_generator.py: parsing of the generation output.               *)
(***************************************************************************)
test_type_map == {"positive", "negative", "edge_case"}

\* _dict_to_test_case, lines 254-261: a ValueError for a missing field (an
\* item that is a list holds none of the field names)
MissingRequiredField(data) ==
    data = "list" \/ ~(required_fields \subseteq Keys(data))

\* line 264: data.get("test_type", "positive").lower(); None has no lower()
TestTypeLowerRaises(data) ==
    "test_type" \in Keys(data) /\ TestTypeValue(data) = "null"

\* lines 264-270
NormalizedTestType(data) ==
    LET test_type_str ==
            Lower(IF "test_type" \in Keys(data) THEN TestTypeValue(data)
                  ELSE "positive")
    IN  IF test_type_str \in test_type_map THEN test_type_str ELSE "positive"

DictToTestCaseRaises(data) ==
    MissingRequiredField(data) \/ TestTypeLowerRaises(data)

\* the TestCase built; test_id stands for the six fields copied from the item
DictToTestCase(data) ==
    [test_id |-> data, test_type |-> NormalizedTestType(data)]

RECURSIVE ConvertItems(_)
\* _parse_test_cases, lines 220-231: an item whose conversion raises is skipped
ConvertItems(items) ==
    IF items = <<>> THEN <<>>
    ELSE (IF DictToTestCaseRaises(Head(items)) THEN <<>>
          ELSE <<DictToTestCase(Head(items))>>)
         \o ConvertItems(Tail(items))

\* _parse_test_cases, lines 191-211: the text handed to json.loads
HasJson(llm_response) ==
    HasFencedBlock(llm_response) \/ HasArrayLiteral(llm_response)

JsonStr(llm_response) ==
    IF HasFencedBlock(llm_response) THEN FencedGroup(llm_response)
    ELSE ArrayGroup(llm_response)

\* the body of the try block of _parse_test_cases
ParseTestCasesTry(llm_response) ==
    IF ~HasJson(llm_response)
    THEN [raised |-> FALSE, test_cases |-> <<>>]
    ELSE LET test_cases_data == JsonLoads(JsonStr(llm_response))
         IN  IF test_cases_data.raised
             THEN [raised |-> TRUE, test_cases |-> <<>>]
             ELSE IF ~test_cases_data.is_list
             THEN [raised |-> FALSE, test_cases |-> <<>>]
             ELSE [raised     |-> FALSE,
                   test_cases |-> ConvertItems(test_cases_data.items)]

\* a _parse_test_cases without its except clauses
ParseTestCasesNoExcept(llm_response) == ParseTestCasesTry(llm_response)

\* _parse_test_cases: both except clauses return []
ParseTestCases(llm_response) ==
    LET tried == ParseTestCasesTry(llm_response)
    IN  IF tried.raised THEN [raised |-> FALSE, test_cases |-> <<>>] ELSE tried

\* _parse_validation, lines 366-372: re.search(r'\{.*?\}'), from the first
\* "{" to the first "}" after it, which inside an oNest is its inner object's
ObjectGroup(text) ==
    LET i == Min({k \in 1..Len(text) : text[k] \in Objects \cup {"oVal"}})
    IN  IF text[i] = "oNest" THEN <<"cut">> ELSE <<text[i]>>

could_not_parse ==
    [valid |-> FALSE, issues |-> <<"Could not parse validation response">>,
     suggestions |-> <<>>, completeness_score |-> 0]

parsing_error ==
    [valid |-> FALSE, issues |-> <<"Parsing error">>,
     suggestions |-> <<>>, completeness_score |-> 0]

\* the value json.loads gives: the dictionary of an oVal, and for any other
\* value (a list, an object of other members) the value as parsed
JsonValue(parsed) ==
    IF ~parsed.is_list /\ parsed.object = "oVal"
    THEN [valid |-> TRUE, issues |-> <<"step 2 is unclear">>,
          suggestions |-> <<>>, completeness_score |-> 1]
    ELSE [json |-> parsed]

\* a _parse_validation that takes a critique it cannot parse for an approval
ParseValidationApproves(llm_response) ==
    [valid |-> TRUE, issues |-> <<>>, suggestions |-> <<>>,
     completeness_score |-> 1]

\* _parse_validation: whatever json.loads gives is returned as it is
ParseValidation(llm_response) ==
    IF ~HasFencedBlock(llm_response)
       /\ ~\E k \in 1..Len(llm_response) :
               llm_response[k] \in Objects \cup {"oVal"}
    THEN could_not_parse
    ELSE LET validation ==
                 JsonLoads(IF HasFencedBlock(llm_response)
                           THEN FencedGroup(llm_response)
                           ELSE ObjectGroup(llm_response))
         IN  IF validation.raised THEN parsing_error
             ELSE JsonValue(validation)

source_not_found ==
    [valid |-> FALSE, issues |-> <<"Source document not found">>,
     suggestions |-> <<"Verify source document exists">>,
     completeness_score |-> 0]

validation_error ==
    [valid |-> FALSE, issues |-> <<"Validation error">>,
     suggestions |-> <<>>, completeness_score |-> 0]

(***************************************************************************)
(* The state machine: the knowledge-base service of the API and the test   *)
(* case generator, each holding its own handle on the stored collection.   *)
(***************************************************************************)
CollectionIds == {"c0", "c1", "c2"}

TopKs == 0..MaxTopK
MinSimilarities == {NoneSim, <<0, 1>>, <<2, 5>>}
SourceFilters == {None, "spec.md"}

\* texts the generation capability returns in the state machine
SampleResponses ==
    {<<"w">>,
     <<"w", "FJ", "[", "oNeg", "oMiss", "oAbs", "]", "F">>,
     <<"FJ", "oNeg", "F">>}

Init ==
    /\ collection = {}
    /\ store_cid = "c0"
    /\ kb_cid = "c0"
    /\ gen_cid = None
    /\ call = [op |-> "init"]
    /\ ret = [op |-> "init"]
    /\ deleted_count = 0
    /\ threads = <<>>

\* RAGService.ingest_document through the API's service
IngestDocument(filename, content, overwrite, fault) ==
    LET out == IngestOutcome(collection, kb_cid, filename, content, overwrite, fault)
    IN  /\ collection' = out.records
        /\ call' = [op |-> "ingest", filename |-> filename, content |-> content,
                    overwrite |-> overwrite, fault |-> fault]
        /\ ret' = out.result
        /\ deleted_count' = out.deleted_count
        /\ UNCHANGED <<store_cid, kb_cid, gen_cid, threads>>

\* RAGService.delete_document
DeleteDocument(filename, fault) ==
    /\ collection' = IF StoreFails(kb_cid, fault) THEN collection
                     ELSE DeleteByFilenameRecords(collection, filename)
    /\ call' = [op |-> "delete", filename |-> filename, fault |-> fault]
    /\ ret' = [result |-> DeleteDocumentResult(collection, kb_cid, filename, fault)]
    /\ deleted_count' = IF StoreFails(kb_cid, fault) THEN 0
                        ELSE DeleteByFilenameCount(collection, filename)
    /\ UNCHANGED <<store_cid, kb_cid, gen_cid, threads>>

\* the filenames that have records
Sources(records) == {r.metadata.source_filename : r \in records}

\* a clearing that removes the records of one document only
ClearKnowledgeBaseOfOne(fault) ==
    /\ call' = [op |-> "clear", fault |-> fault, sources |-> Sources(collection)]
    /\ ret' = [result |-> TRUE]
    /\ collection' = DeleteByFilenameRecords(collection, "spec.md")
    /\ UNCHANGED <<store_cid, kb_cid, gen_cid, deleted_count, threads>>

\* RAGService.clear_knowledge_base: the collection is deleted and created
\* anew, and only the clearing service's handle follows it; the call is
\* recorded with the filenames that had records when it was made
ClearKnowledgeBase(fault) ==
    LET fresh == CHOOSE c \in CollectionIds : c \notin {store_cid, gen_cid}
    IN  /\ call' = [op |-> "clear", fault |-> fault,
                    sources |-> Sources(collection)]
        /\ IF StoreFails(kb_cid, fault)
           THEN /\ ret' = [result |-> FALSE]
                /\ UNCHANGED <<collection, store_cid, kb_cid>>
           ELSE /\ ret' = [result |-> TRUE]
                /\ collection' = {}
                /\ store_cid' = fresh
                /\ kb_cid' = fresh
        /\ UNCHANGED <<gen_cid, deleted_count, threads>>

\* RAGService.get_knowledge_base_stats; {} when the store call raises
GetKnowledgeBaseStats(fault) ==
    /\ call' = [op |-> "stats", fault |-> fault]
    /\ IF StoreFails(kb_cid, fault)
       THEN ret' = <<>>
       ELSE \E sample \in Peek(collection, peek_limit) :
                ret' = GetCollectionStats(collection, sample)
    /\ UNCHANGED <<collection, store_cid, kb_cid, gen_cid, deleted_count,
                   threads>>

\* RAGService.search through the API's service
Search(query, top_k, min_similarity, source_filter, fault) ==
    /\ \E results \in SearchResults(collection, kb_cid, query, top_k,
                                    min_similarity, source_filter, fault) :
           ret' = [results |-> results]
    /\ call' = [op |-> "search", query |-> query, top_k |-> top_k,
                min_similarity |-> min_similarity,
                source_filter |-> source_filter, fault |-> fault]
    /\ UNCHANGED <<collection, store_cid, kb_cid, gen_cid, deleted_count, threads>>

\* get_test_generator: TestCaseGenerator.__init__ builds its own RAGService
InitTestCaseGenerator ==
    /\ gen_cid = None
    /\ gen_cid' = store_cid
    /\ call' = [op |-> "init_generator"]
    /\ ret' = [op |-> "init_generator"]
    /\ UNCHANGED <<collection, store_cid, kb_cid, deleted_count, threads>>

\* a generate_test_cases that goes on without context
GenerateOutcomeNoGuard(context_chunks, fault, llm_response) ==
    [raised     |-> fault = "llm",
     test_cases |-> IF fault = "llm" THEN <<>>
                    ELSE ParseTestCases(llm_response).test_cases,
     llm_calls  |-> 1,
     retrieved  |-> Len(context_chunks)]

\* generate_test_cases, lines 80-107, once retrieval has returned
GenerateOutcome(context_chunks, fault, llm_response) ==
    IF context_chunks = <<>>
    THEN [raised |-> FALSE, test_cases |-> <<>>, llm_calls |-> 0,
          retrieved |-> 0]
    ELSE IF fault = "llm"
    THEN [raised |-> TRUE, test_cases |-> <<>>, llm_calls |-> 1,
          retrieved |-> Len(context_chunks)]
    ELSE [raised     |-> FALSE,
          test_cases |-> ParseTestCases(llm_response).test_cases,
          llm_calls  |-> 1,
          retrieved  |-> Len(context_chunks)]

\* TestCaseGenerator.generate_test_cases; fault "llm" is a provider error
GenerateTestCases(query, top_k, fault, llm_response) ==
    /\ gen_cid # None
    /\ call' = [op |-> "generate", query |-> query, top_k |-> top_k,
                fault |-> fault, llm_response |-> llm_response]
    /\ \E context_chunks \in SearchResults(collection, gen_cid, query, top_k,
                                           min_similarity_score, None, fault) :
           ret' = GenerateOutcome(context_chunks, fault, llm_response)
    /\ UNCHANGED <<collection, store_cid, kb_cid, gen_cid, deleted_count, threads>>

\* validate_test_case, line 302: source_filter or test_case.grounded_in
ValidationFilter(source_filter, grounded_in) ==
    IF source_filter # None THEN source_filter ELSE grounded_in

\* a validate_test_case that asks for a critique without context
ValidateOutcomeNoShortCircuit(context_chunks, fault, llm_response) ==
    [validation |-> IF fault = "llm" THEN validation_error
                    ELSE ParseValidation(llm_response),
     raised     |-> FALSE,
     llm_calls  |-> 1,
     retrieved  |-> Len(context_chunks)]

\* validate_test_case, lines 305-343, once retrieval has returned; the except
\* clause of lines 336-343 turns every exception into a result, so that
\* nothing is raised
ValidateOutcome(context_chunks, fault, llm_response) ==
    IF context_chunks = <<>>
    THEN [validation |-> source_not_found, raised |-> FALSE,
          llm_calls |-> 0, retrieved |-> 0]
    ELSE IF fault = "llm"
    THEN [validation |-> validation_error, raised |-> FALSE,
          llm_calls |-> 1, retrieved |-> Len(context_chunks)]
    ELSE [validation |-> ParseValidation(llm_response),
          raised     |-> FALSE,
          llm_calls  |-> 1,
          retrieved  |-> Len(context_chunks)]

\* TestCaseGenerator.validate_test_case
ValidateTestCase(test_scenario, grounded_in, source_filter, fault, llm_response) ==
    /\ gen_cid # None
    /\ call' = [op |-> "validate", test_scenario |-> test_scenario,
                grounded_in |-> grounded_in, source_filter |-> source_filter,
                fault |-> fault, llm_response |-> llm_response]
    /\ \E context_chunks \in
           SearchResults(collection, gen_cid, test_scenario, 3, NoneSim,
                         ValidationFilter(source_filter, grounded_in), fault) :
           ret' = ValidateOutcome(context_chunks, fault, llm_response)
    /\ UNCHANGED <<collection, store_cid, kb_cid, gen_cid, deleted_count, threads>>

(***************************************************************************)
(* The calls made.  A call during which a collaborator fails is made with  *)
(* the default arguments.                                                  *)
(***************************************************************************)
IngestCalls ==
    ({"spec.md"} \X Contents \X BOOLEAN \X {"none"})
    \cup ({"spec.md"} \X FaultContents \X BOOLEAN \X IngestFaults)
    \cup ({"ui.md"} \X OtherContents \X BOOLEAN \X {"none", "add"})

SearchCalls ==
    (QueryTexts \X TopKs \X MinSimilarities \X SourceFilters \X {"none"})
    \cup (QueryTexts \X {0} \X {NoneSim} \X {None} \X SearchFaults)

GenerateCalls ==
    (QueryTexts \X TopKs \X {"none"} \X SampleResponses)
    \cup (QueryTexts \X {0} \X (SearchFaults \cup {"llm"}) \X {<<"w">>})

ValidateCalls ==
    (QueryTexts \X (Filenames \cup {"gone.md"}) \X SourceFilters \X {"none"}
        \X SampleResponses)
    \cup (QueryTexts \X Filenames \X {None} \X (SearchFaults \cup {"llm"})
            \X {<<"w">>})

DoIngest == \E c \in IngestCalls : IngestDocument(c[1], c[2], c[3], c[4])
DoDelete ==
    \E filename \in Filenames, fault \in {"none", "store"} :
        DeleteDocument(filename, fault)
DoClear == \E fault \in {"none", "store"} : ClearKnowledgeBase(fault)
DoSearch == \E c \in SearchCalls : Search(c[1], c[2], c[3], c[4], c[5])
DoStats == \E fault \in {"none", "store"} : GetKnowledgeBaseStats(fault)
DoGenerate == \E c \in GenerateCalls : GenerateTestCases(c[1], c[2], c[3], c[4])
DoValidate ==
    \E c \in ValidateCalls : ValidateTestCase(c[1], c[2], c[3], c[4], c[5])

\* the knowledge-base service: ingestion, deletion and search
Next == DoIngest \/ DoDelete \/ DoClear \/ DoSearch \/ DoStats

Spec == Init /\ [][Next]_vars

\* documents ingested without overwrite, for the generator to retrieve from
DoIngestPlain ==
    \/ \E content \in SeqsUpTo(Words, MaxChunks) :
           IngestDocument("spec.md", content, FALSE, "none")
    \/ \E content \in OtherContents :
           IngestDocument("ui.md", content, FALSE, "none")

\* the test case generator beside the knowledge-base service
NextGen ==
    DoIngestPlain \/ DoClear \/ InitTestCaseGenerator \/ DoGenerate \/ DoValidate

SpecGen == Init /\ [][NextGen]_vars

(***************************************************************************)
(* _parse_test_cases on every text of Responses.                           *)
(***************************************************************************)
InitParse ==
    /\ collection = {}
    /\ store_cid = "c0"
    /\ kb_cid = "c0"
    /\ gen_cid = "c0"
    /\ deleted_count = 0
    /\ threads = <<>>
    /\ call \in {[op |-> "parse", llm_response |-> r] : r \in Responses}
    /\ ret = [done |-> FALSE]

DoParseTestCases ==
    /\ ~ret.done
    /\ ret' = [done       |-> TRUE,
               raised     |-> ParseTestCases(call.llm_response).raised,
               test_cases |-> ParseTestCases(call.llm_response).test_cases]
    /\ UNCHANGED <<collection, store_cid, kb_cid, gen_cid, call, deleted_count, threads>>

NextParse == DoParseTestCases

SpecParse == InitParse /\ [][NextParse]_vars

(***************************************************************************)
(* Statistics of an index that holds more records than peek returns.       *)
(***************************************************************************)
\* a document of as many chunks as peek returns records
LargeContent == [i \in 1..peek_limit |-> "a"]

LargeCalls ==
    ({"spec.md"} \X {LargeContent, <<"a">>, <<"c", "a">>} \X BOOLEAN)
    \cup ({"ui.md"} \X {<<"c">>, <<"a", "c">>} \X BOOLEAN)

DoIngestLarge ==
    \E c \in LargeCalls : IngestDocument(c[1], c[2], c[3], "none")

NextStats == DoIngestLarge \/ DoDelete \/ DoClear \/ DoStats

SpecStats == Init /\ [][NextStats]_vars

(***************************************************************************)
(* Batch ingestion: ingest_multiple of file paths, and                     *)
(* _ingest_loaded_documents of the documents ingest_directory has loaded.  *)
(***************************************************************************)
Document(filename, content, fault) ==
    [filename |-> filename, content |-> content, fault |-> fault]

\* the documents of the batches, some of which fail: on loading, on chunking
\* (blank content), on embedding, in the store
BatchDocuments ==
    {Document("spec.md", <<"c", "a">>, "none"),
     Document("spec.md", <<"c", "a">>, "embed"),
     Document("spec.md", <<"a">>, "store"),
     Document("ui.md", <<"c">>, "none"),
     Document("ui.md", <<Blank>>, "none"),
     Document("ui.md", <<"a">>, "load")}

Batches == SeqsUpTo(BatchDocuments, MaxBatch)

\* RAGService.ingest_multiple
IngestMultiple(documents, overwrite) ==
    LET out == IngestEach(collection, kb_cid, documents, overwrite)
    IN  /\ collection' = out.records
        /\ call' = [op |-> "ingest_multiple", documents |-> documents,
                    overwrite |-> overwrite]
        /\ ret' = Summary(documents, out.results)
        /\ deleted_count' = 0
        /\ UNCHANGED <<store_cid, kb_cid, gen_cid, threads>>

\* RAGService._ingest_loaded_documents: the documents are loaded already
IngestLoadedDocuments(documents, overwrite) ==
    LET out == IngestEach(collection, kb_cid, documents, overwrite)
    IN  /\ \A i \in 1..Len(documents) : documents[i].fault # "load"
        /\ collection' = out.records
        /\ call' = [op |-> "ingest_loaded", documents |-> documents,
                    overwrite |-> overwrite]
        /\ ret' = Summary(documents, out.results)
        /\ deleted_count' = 0
        /\ UNCHANGED <<store_cid, kb_cid, gen_cid, threads>>

DoIngestMultiple ==
    \E documents \in Batches, overwrite \in BOOLEAN :
        IngestMultiple(documents, overwrite)

DoIngestLoaded ==
    \E documents \in Batches, overwrite \in BOOLEAN :
        IngestLoadedDocuments(documents, overwrite)

NextBatch == DoIngestMultiple \/ DoIngestLoaded

SpecBatch == Init /\ [][NextBatch]_vars

(***************************************************************************)
(* Calls in flight at once.  ingest_document holds no lock: with           *)
(* overwrite it makes three calls on the collection, one after the other,  *)
(* collection.get and collection.delete in delete_by_filename and          *)
(* collection.add in add_chunks, and the calls of another thread may fall  *)
(* between them.  Thread 1 is an overwriting ingest of "spec.md", thread 2 *)
(* another one or a search filtered to "spec.md".                          *)
(***************************************************************************)
NewContents == SeqsUpTo(Words, MaxChunks) \ {<<>>}

Writer(content) ==
    [op |-> "ingest", overwrite |-> TRUE, pc |-> "start",
     filename |-> "spec.md", content |-> content, ids |-> {},
     result |-> None]

Searcher(query) ==
    [op |-> "search", pc |-> "start", filename |-> "spec.md",
     query |-> query, results |-> <<>>]

\* the records of a document ingested into an empty collection
RecordsOf(content, filename) ==
    LET chunks == ProcessDocument(content, filename, LoaderMetadata(filename))
    IN  AddChunks({}, chunks, EmbedBatch([i \in 1..Len(chunks) |-> chunks[i].text]))

InitConcurrent ==
    /\ store_cid = "c0"
    /\ kb_cid = "c0"
    /\ gen_cid = "c0"
    /\ deleted_count = 0
    /\ \E old \in SeqsUpTo(Words, MaxChunks) :
           /\ collection = RecordsOf(old, "spec.md")
           /\ call = [op |-> "concurrent", old |-> old]
    /\ ret = [op |-> "concurrent"]
    /\ threads \in {<<Writer(a), second>> :
                       a \in NewContents,
                       second \in {Writer(b) : b \in NewContents}
                                   \cup {Searcher(q) : q \in QueryTexts}}

\* delete_by_filename, lines 252-254: collection.get(where=...)
DeleteByFilenameGet(t) ==
    /\ threads[t].op = "ingest" /\ threads[t].overwrite
    /\ threads[t].pc = "start"
    /\ threads' = [threads EXCEPT
                      ![t].pc = "got",
                      ![t].ids = Ids(GetWhere(collection, threads[t].filename))]
    /\ UNCHANGED <<collection, store_cid, kb_cid, gen_cid, call, ret,
                   deleted_count>>

\* delete_by_filename, lines 256-266: collection.delete(ids=results['ids'])
DeleteByFilenameDelete(t) ==
    /\ threads[t].op = "ingest" /\ threads[t].pc = "got"
    /\ collection' = {r \in collection : r.id \notin threads[t].ids}
    /\ threads' = [threads EXCEPT ![t].pc = "deleted"]
    /\ UNCHANGED <<store_cid, kb_cid, gen_cid, call, ret, deleted_count>>

\* ingest_document, lines 92-129: chunk, embed and add_chunks.  When an id is
\* stored already, collection.add leaves that record as it is or raises,
\* depending on the release of the store.
ProcessEmbedAdd(t) ==
    LET chunks == ProcessDocument(threads[t].content, threads[t].filename,
                                  LoaderMetadata(threads[t].filename))
        embeddings == EmbedBatch([i \in 1..Len(chunks) |-> chunks[i].text])
        clash == \E i \in 1..Len(chunks) : chunks[i].chunk_id \in Ids(collection)
    IN  /\ threads[t].op = "ingest"
        /\ threads[t].pc \in {"deleted", "checked"}
        /\ \/ /\ collection' = AddChunks(collection, chunks, embeddings)
              /\ threads' = [threads EXCEPT ![t].pc = "done",
                                            ![t].result = "success"]
           \/ /\ clash
              /\ collection' = collection
              /\ threads' = [threads EXCEPT ![t].pc = "done",
                                            ![t].result = "error"]
        /\ UNCHANGED <<store_cid, kb_cid, gen_cid, call, ret, deleted_count>>

\* search(query, source_filter=filename) with a threshold every record passes
SearchDuring(t) ==
    /\ threads[t].op = "search" /\ threads[t].pc = "start"
    /\ \E results \in SearchResults(collection, kb_cid, threads[t].query, 0,
                                    <<1, 3>>, threads[t].filename, "none") :
           threads' = [threads EXCEPT ![t].pc = "done", ![t].results = results]
    /\ UNCHANGED <<collection, store_cid, kb_cid, gen_cid, call, ret,
                   deleted_count>>

NextConcurrent ==
    \E t \in {1, 2} :
        \/ DeleteByFilenameGet(t)
        \/ DeleteByFilenameDelete(t)
        \/ ProcessEmbedAdd(t)
        \/ SearchDuring(t)

SpecConcurrent == InitConcurrent /\ [][NextConcurrent]_vars

(***************************************************************************)
(* Two ingests without overwrite of one filename, in flight at once on an  *)
(* index that has no record of it.  Each makes two calls on the            *)
(* collection, collection.get in search_by_metadata and collection.add in  *)
(* add_chunks, with nothing to keep the other's calls from falling between.*)
(***************************************************************************)
PlainWriter(content) ==
    [op |-> "ingest", overwrite |-> FALSE, pc |-> "start",
     filename |-> "spec.md", content |-> content, ids |-> {},
     result |-> None]

InitRace ==
    /\ store_cid = "c0"
    /\ kb_cid = "c0"
    /\ gen_cid = "c0"
    /\ deleted_count = 0
    /\ collection \in {{}, RecordsOf(<<"a">>, "ui.md")}
    /\ call = [op |-> "race"]
    /\ ret = [op |-> "race"]
    /\ threads \in {<<PlainWriter(a), PlainWriter(b)>> :
                       a \in NewContents, b \in NewContents}

\* ingest_document, lines 73-85: the existence check, and "skipped" when a
\* record of the filename is found
ExistenceCheck(t) ==
    /\ threads[t].op = "ingest" /\ ~threads[t].overwrite
    /\ threads[t].pc = "start"
    /\ threads' =
         IF SearchByMetadata(collection, threads[t].filename)
         THEN [threads EXCEPT ![t].pc = "done", ![t].result = "skipped"]
         ELSE [threads EXCEPT ![t].pc = "checked"]
    /\ UNCHANGED <<collection, store_cid, kb_cid, gen_cid, call, ret,
                   deleted_count>>

NextRace ==
    \E t \in {1, 2} : ExistenceCheck(t) \/ ProcessEmbedAdd(t)

SpecRace == InitRace /\ [][NextRace]_vars

(***************************************************************************)
(* validate_test_case on every critique text, its retrieval having found   *)
(* one context chunk.                                                      *)
(***************************************************************************)
CritiqueTokens == {"[", "]", "w", "oVal", "oNeg", "oNest"}
CritiqueBodies == SeqsUpTo(CritiqueTokens, MaxRespLen)

\* the texts the generation capability may return for a critique
Critiques ==
    CritiqueBodies
    \cup {<<"FJ">> \o b \o <<"F">> : b \in CritiqueBodies}
    \cup {<<"w", "FJ">> \o b \o <<"F", "w">> : b \in CritiqueBodies}
    \cup {<<"FJ">> \o b : b \in CritiqueBodies}
    \cup {b \o <<"FJ", "w", "F">> : b \in CritiqueBodies}

InitCritique ==
    /\ collection = {}
    /\ store_cid = "c0"
    /\ kb_cid = "c0"
    /\ gen_cid = "c0"
    /\ deleted_count = 0
    /\ threads = <<>>
    /\ call \in {[op |-> "critique", llm_response |-> r, fault |-> f] :
                    r \in Critiques, f \in {"none", "llm"}}
    /\ ret = [done |-> FALSE]

\* validate_test_case from line 305 on, with a context chunk retrieved
DoValidateWithContext ==
    LET out == ValidateOutcome(<<"chunk">>, call.fault, call.llm_response)
    IN  /\ ~ret.done
        /\ ret' = [done       |-> TRUE,
                   raised     |-> out.raised,
                   validation |-> out.validation,
                   llm_calls  |-> out.llm_calls]
        /\ UNCHANGED <<collection, store_cid, kb_cid, gen_cid, call,
                       deleted_count, threads>>

NextCritique == DoValidateWithContext

SpecCritique == InitCritique /\ [][NextCritique]_vars

(***************************************************************************)
(* embed_batch on every list of texts, and the length check add_chunks     *)
(* makes on what it returns.                                               *)
(***************************************************************************)
EmbedTexts == {"a", "b", "c", Blank, ""}

InitEmbed ==
    /\ collection = {}
    /\ store_cid = "c0"
    /\ kb_cid = "c0"
    /\ gen_cid = "c0"
    /\ deleted_count = 0
    /\ threads = <<>>
    /\ call \in {[op |-> "embed_batch", texts |-> texts] :
                    texts \in SeqsUpTo(EmbedTexts, MaxTexts)}
    /\ ret = [done |-> FALSE]

\* EmbeddingService.embed_batch(texts), and whether add_chunks accepts the
\* embeddings for as many chunks as there are texts
DoEmbedBatch ==
    LET embeddings == EmbedBatch(call.texts)
    IN  /\ ~ret.done
        /\ ret' = [done       |-> TRUE,
                   embeddings |-> embeddings,
                   add_raises |-> AddChunksRaises(call.texts, embeddings)]
        /\ UNCHANGED <<collection, store_cid, kb_cid, gen_cid, call,
                       deleted_count, threads>>

NextEmbed == DoEmbedBatch

SpecEmbed == InitEmbed /\ [][NextEmbed]_vars

(***************************************************************************)
(* process_document on every content, for documents of any metadata.       *)
(***************************************************************************)
\* metadata a Document may carry: the loader's, and maps that hold a key the
\* chunker or the store writes itself
DocumentMetadatas ==
    {LoaderMetadata("spec.md"),
     [chunk_count |-> "7"],
     [source_filename |-> "ui.md"],
     [chunk_index |-> 9]}

InitChunk ==
    /\ collection = {}
    /\ store_cid = "c0"
    /\ kb_cid = "c0"
    /\ gen_cid = "c0"
    /\ deleted_count = 0
    /\ threads = <<>>
    /\ call \in {[op |-> "process_document", content |-> content,
                  filename |-> filename, metadata |-> metadata] :
                    content \in SeqsUpTo(ContentTokens, MaxChunks + 1),
                    filename \in Filenames,
                    metadata \in DocumentMetadatas}
    /\ ret = [done |-> FALSE]

\* TextProcessor.process_document(content, filename, metadata)
DoProcessDocument ==
    /\ ~ret.done
    /\ ret' = [done   |-> TRUE,
               chunks |-> ProcessDocument(call.content, call.filename,
                                          call.metadata)]
    /\ UNCHANGED <<collection, store_cid, kb_cid, gen_cid, call,
                   deleted_count, threads>>

NextChunk == DoProcessDocument

SpecChunk == InitChunk /\ [][NextChunk]_vars

(***************************************************************************)
(* api/knowledge_base.py: the upload endpoint over ingest_document.        *)
(***************************************************************************)
\* the keys of the dictionary ingest_document returns, lines 77-81, 100-104,
\* 116-122 and 133-137
IngestResultKeys(status) ==
    IF status = "success"
    THEN {"status", "filename", "file_type", "chunks_created",
          "total_characters"}
    ELSE {"status", "message", "filename"}

\* UploadResponse: the fields without a default
upload_response_required == {"status", "message", "filename"}

\* UploadResponse(**result) raises a ValidationError when a required field
\* is missing; keys that are no field are ignored
UploadResponseRaises(result) ==
    ~(upload_response_required \subseteq IngestResultKeys(result.status))

\* upload_document, lines 135-146: the answer for an ingestion result; the
\* ValidationError is caught by "except Exception" and answered with 500
UploadAnswer(result) ==
    IF UploadResponseRaises(result)
    THEN [http |-> 500, body |-> [detail |-> "Upload failed"]]
    ELSE [http |-> 200, body |-> result]

\* upload_document; a file of a type not allowed or too large is refused
\* with 400 before anything is saved or ingested
UploadDocument(filename, content, overwrite, fault, accepted) ==
    LET out == IngestOutcome(collection, kb_cid, filename, content, overwrite,
                             fault)
    IN  /\ call' = [op |-> "upload", filename |-> filename,
                    content |-> content, overwrite |-> overwrite,
                    fault |-> fault, accepted |-> accepted]
        /\ IF ~accepted
           THEN /\ ret' = [http |-> 400, body |-> [detail |-> "refused"]]
                /\ UNCHANGED <<collection, deleted_count>>
           ELSE /\ ret' = UploadAnswer(out.result)
                /\ collection' = out.records
                /\ deleted_count' = out.deleted_count
        /\ UNCHANGED <<store_cid, kb_cid, gen_cid, threads>>

UploadCalls ==
    ({"spec.md"} \X Contents \X BOOLEAN \X {"none"} \X BOOLEAN)
    \cup ({"spec.md"} \X FaultContents \X BOOLEAN \X IngestFaults \X {TRUE})
    \cup ({"ui.md"} \X OtherContents \X BOOLEAN \X {"none"} \X {TRUE})

DoUpload ==
    \E c \in UploadCalls : UploadDocument(c[1], c[2], c[3], c[4], c[5])

NextUpload == DoUpload \/ DoDelete

SpecUpload == Init /\ [][NextUpload]_vars

(***************************************************************************)
(* generate_test_cases with a limit on the number of test cases, its       *)
(* retrieval having found one context chunk.                               *)
(***************************************************************************)
\* _build_generation_query: the requirements added to the query, of which
\* the first names max_count; the limit goes into the prompt and nowhere
\* else
BuildGenerationQuery(base_query, include_negative, max_count) ==
    [query        |-> base_query,
     requirements |->
         <<<<"Generate up to", max_count, "test cases">>,
           "Include positive test cases">>
         \o (IF include_negative
             THEN <<"Include negative test cases", "Include edge cases">>
             ELSE <<>>)
         \o <<"Every test case MUST cite its source document">>]

\* lists of objects as the generation capability may return them, fenced or
\* bare, whatever the prompt asked for
LimitBodies == SeqsUpTo({"oNeg", "oAbs", "oMiss"}, MaxRespLen)

LimitResponses ==
    {<<"FJ", "[">> \o b \o <<"]", "F">> : b \in LimitBodies}
    \cup {<<"[">> \o b \o <<"]">> : b \in LimitBodies}

InitLimit ==
    /\ collection = {}
    /\ store_cid = "c0"
    /\ kb_cid = "c0"
    /\ gen_cid = "c0"
    /\ deleted_count = 0
    /\ threads = <<>>
    /\ call \in {[op |-> "generate_limited", query |-> "a",
                  include_negative |-> n, max_test_cases |-> m,
                  llm_response |-> r] :
                    n \in BOOLEAN, m \in 1..MaxCount, r \in LimitResponses}
    /\ ret = [done |-> FALSE]

\* generate_test_cases from line 86 on, with a context chunk retrieved
DoGenerateWithContext ==
    LET enhanced_query == BuildGenerationQuery(call.query,
                                               call.include_negative,
                                               call.max_test_cases)
        out == GenerateOutcome(<<"chunk">>, "none", call.llm_response)
    IN  /\ ~ret.done
        /\ ret' = [done       |-> TRUE,
                   prompt     |-> enhanced_query,
                   test_cases |-> out.test_cases]
        /\ UNCHANGED <<collection, store_cid, kb_cid, gen_cid, call,
                       deleted_count, threads>>

NextLimit == DoGenerateWithContext

SpecLimit == InitLimit /\ [][NextLimit]_vars

(***************************************************************************)
(* Ingestion of documents that carry metadata of any keys, through         *)
(* _ingest_loaded_documents, and their deletion.                           *)
(***************************************************************************)
\* _ingest_loaded_documents of one Document
IngestLoadedDocument(filename, content, metadata, overwrite) ==
    LET out == IngestLoadedOutcome(collection, kb_cid, filename, content,
                                   metadata, overwrite, "none")
    IN  /\ collection' = out.records
        /\ call' = [op |-> "ingest_loaded_document", filename |-> filename,
                    content |-> content, metadata |-> metadata,
                    overwrite |-> overwrite]
        /\ ret' = out.result
        /\ deleted_count' = out.deleted_count
        /\ UNCHANGED <<store_cid, kb_cid, gen_cid, threads>>

LoadedDocuments ==
    ({"spec.md"} \X {<<"a">>, <<"c", "a">>} \X DocumentMetadatas)
    \cup ({"ui.md"} \X {<<"c">>} \X DocumentMetadatas)

DoIngestLoadedDocument ==
    \E d \in LoadedDocuments, overwrite \in BOOLEAN :
        IngestLoadedDocument(d[1], d[2], d[3], overwrite)

NextMeta == DoIngestLoadedDocument \/ DoDelete

SpecMeta == Init /\ [][NextMeta]_vars

(***************************************************************************)
(* Properties of the knowledge-base service, checked under Spec.           *)
(***************************************************************************)
\* the (chunk_index, text) pairs stored under a filename
StoredChunks(records, filename) ==
    {<<r.metadata.chunk_index, r.document>> : r \in GetWhere(records, filename)}

\* the (chunk_index, text) pairs a content splits into: its words, in order
ExpectedChunks(content) ==
    LET words == SelectSeq(content, IsWord)
    IN  {<<i - 1, words[i]>> : i \in 1..Len(words)}

IsIngest(c) == c.op = "ingest"

\* C1: an ingest without overwrite, during which nothing fails, of a filename
\* that has no record and whose content has a word returns "success" and
\* adds chunks_created records; of a filename that has records (as after that
\* first call) it returns "skipped" and leaves the index as it was, whatever
\* the content of the second document.
C1_SkipIsFilenameBased ==
    [][(IsIngest(call') /\ ~call'.overwrite /\ call'.fault = "none")
        => IF GetWhere(collection, call'.filename) # {}
           THEN ret'.status = "skipped" /\ collection' = collection
           ELSE ExpectedChunks(call'.content) # {}
                => /\ ret'.status = "success"
                   /\ Cardinality(collection')
                        = Cardinality(collection) + ret'.chunks_created
                   /\ GetWhere(collection', call'.filename) # {}]_vars

\* C1 witness: a second document of other content was skipped
C1_Witness ==
    /\ IsIngest(call) /\ ~call.overwrite /\ call.fault = "none"
    /\ ret.status = "skipped"
    /\ ExpectedChunks(call.content) # {}
    /\ StoredChunks(collection, call.filename) # ExpectedChunks(call.content)

\* C2: after a successful ingest with overwrite, the records of that filename
\* are exactly the chunks of the document just ingested.
C2_OverwriteReplaces ==
    (IsIngest(call) /\ call.overwrite /\ ret.status = "success")
        => /\ StoredChunks(collection, call.filename)
                = ExpectedChunks(call.content)
           /\ Cardinality(GetWhere(collection, call.filename))
                = ret.chunks_created

\* C2 witness: the overwrite removed more records than the new document has
\* chunks, so a chunk_index of the old document is not produced by the new one
C2_Witness ==
    /\ IsIngest(call) /\ call.overwrite /\ ret.status = "success"
    /\ deleted_count > ret.chunks_created

IsDelete(c) == c.op = "delete"

\* True == 1 and False == 0 in Python
PyInt(b) == IF b THEN 1 ELSE 0

IsSearch(c) == c.op = "search"

\* C4: the results of search are non-increasing in similarity_score, and each
\* has a similarity_score of at least the min_similarity the caller passed.
C4_OrderedAndThresholded ==
    IsSearch(call)
        => /\ \A i \in 1..Len(ret.results), j \in 1..Len(ret.results) :
                  i < j => FracGeq(ret.results[i].similarity_score,
                                   ret.results[j].similarity_score)
           /\ call.min_similarity # NoneSim
                => \A i \in 1..Len(ret.results) :
                       FracGeq(ret.results[i].similarity_score,
                               call.min_similarity)

\* C4 witness: several results of different similarity, under a threshold
\* that the caller passed
C4_Witness ==
    /\ IsSearch(call) /\ call.fault = "none"
    /\ call.min_similarity = <<2, 5>>
    /\ call.source_filter = None
    /\ Len(ret.results) > 1
    /\ ret.results[1].similarity_score # ret.results[Len(ret.results)].similarity_score
    /\ call.top_k = 0

\* C5 as stated: when every record of a non-empty index is of one filename,
\* search(q, top_k=1, min_similarity=0.0) returns exactly one result, of that
\* filename.
C5_ZeroThresholdKeepsAll ==
    (/\ IsSearch(call) /\ call.fault = "none"
     /\ call.top_k = 1 /\ call.min_similarity = <<0, 1>>
     /\ call.source_filter = None
     /\ collection # {}
     /\ \E f \in Filenames : GetWhere(collection, f) = collection)
        => /\ Len(ret.results) = 1
           /\ GetWhere(collection, ret.results[1].source_filename) = collection

(***************************************************************************)
(* Properties of the test case generator, checked under SpecGen.           *)
(***************************************************************************)
IsGenerate(c) == c.op = "generate"

\* C6: generate_test_cases returns an empty list and makes no generation
\* call whenever its retrieval returns no context chunk, as it does on an
\* empty index.
C6_NoContextNoGeneration ==
    IsGenerate(call)
        => /\ collection = {} => ret.retrieved = 0
           /\ ret.retrieved = 0
                => /\ ret.llm_calls = 0
                   /\ ret.test_cases = <<>>
                   /\ ~ret.raised

\* C6 witness: the index holds records, none of them near enough to the
\* query, and the generation output offered holds valid records
C6_Witness ==
    /\ IsGenerate(call) /\ call.fault = "none"
    /\ collection # {} /\ gen_cid = store_cid
    /\ ParseTestCases(call.llm_response).test_cases # <<>>
    /\ ret.retrieved = 0

IsValidate(c) == c.op = "validate"

\* the records validate_test_case retrieves from: those of source_filter, or
\* else of grounded_in, at similarity 1/2 or more to the scenario
ValidationSources(records, c) ==
    {r \in records :
        /\ r.metadata.source_filename
             = (IF c.source_filter # None THEN c.source_filter
                ELSE c.grounded_in)
        /\ FracGeq(Similarity(CosineDistance(EmbedText(c.test_scenario),
                                             r.embedding)),
                   min_similarity_score)}

\* C10: validate_test_case retrieves with the scenario as query, top_k = 3,
\* among the records of source_filter or else of grounded_in; when that
\* returns nothing it makes no generation call and returns valid = false,
\* completeness_score = 0 and the one issue "Source document not found".
C10_ValidateShortCircuit ==
    IsValidate(call)
        => /\ (call.fault = "none" /\ gen_cid = store_cid)
                => ret.retrieved
                     = (IF Cardinality(ValidationSources(collection, call)) < 3
                        THEN Cardinality(ValidationSources(collection, call))
                        ELSE 3)
           /\ ret.retrieved = 0
                => /\ ret.llm_calls = 0
                   /\ ret.validation.valid = FALSE
                   /\ ret.validation.completeness_score = 0
                   /\ ret.validation.issues = <<"Source document not found">>

\* C10 witness: the index holds records of other filenames only
C10_Witness ==
    /\ IsValidate(call) /\ call.fault = "none"
    /\ collection # {} /\ gen_cid = store_cid
    /\ call.source_filter = None
    /\ ret.retrieved = 0
    /\ ret.validation = source_not_found

(***************************************************************************)
(* Properties of _parse_test_cases, checked under SpecParse.               *)
(***************************************************************************)
\* the text handed to json.loads: the fenced block if there is one, else the
\* bracketed literal
Selected(text) ==
    IF \E i \in 1..Len(text) :
           text[i] = "FJ" /\ \E j \in (i + 1)..Len(text) : IsFence(text[j])
    THEN FencedGroup(text)
    ELSE ArrayGroup(text)

ParsesToList(text) ==
    /\ HasJson(text)
    /\ ~JsonLoads(Selected(text)).raised
    /\ JsonLoads(Selected(text)).is_list

HasAllRequired(item) ==
    item \in Objects /\ required_fields \subseteq Keys(item)

\* C7: _parse_test_cases raises for no text; without a fenced block and
\* without a bracketed literal, or when the text selected (the fenced block
\* first) is no valid JSON or no list, it returns []; and every record it
\* returns comes from an item of the selected list.
C7_ParseNeverRaises ==
    ret.done
        => /\ ~ret.raised
           /\ ~ParsesToList(call.llm_response) => ret.test_cases = <<>>
           /\ ParsesToList(call.llm_response)
                => \A i \in 1..Len(ret.test_cases) :
                       \E k \in 1..Len(JsonLoads(Selected(call.llm_response)).items) :
                           JsonLoads(Selected(call.llm_response)).items[k]
                               = ret.test_cases[i].test_id

\* C7 witness: a fenced block that is no JSON comes after a list of objects,
\* and the result is empty
C7_Witness ==
    /\ ret.done
    /\ HasFencedBlock(call.llm_response)
    /\ HasArrayLiteral(call.llm_response)
    /\ ~JsonLoads(ArrayGroup(call.llm_response)).raised
    /\ JsonLoads(FencedGroup(call.llm_response)).raised
    /\ ret.test_cases = <<>>

\* C8 as stated: of a parsed list, exactly the items that have all required
\* fields are returned, in their order.
C8_DropsOnlyIncomplete ==
    (ret.done /\ ParsesToList(call.llm_response))
        => [i \in 1..Len(ret.test_cases) |-> ret.test_cases[i].test_id]
             = SelectSeq(JsonLoads(Selected(call.llm_response)).items,
                         HasAllRequired)

\* C9 as stated: every item that has all required fields yields a record of
\* kind positive, negative or edge_case, and of kind positive when its
\* test_type is absent or not one of the three.
C9_KindDefaultsToPositive ==
    (ret.done /\ ParsesToList(call.llm_response))
        => \A k \in 1..Len(JsonLoads(Selected(call.llm_response)).items) :
               LET item == JsonLoads(Selected(call.llm_response)).items[k]
               IN  HasAllRequired(item)
                     => \E i \in 1..Len(ret.test_cases) :
                            /\ ret.test_cases[i].test_id = item
                            /\ ret.test_cases[i].test_type \in test_type_map
                            /\ item \in {"oAbs", "oOdd", "oNull"}
                                 => ret.test_cases[i].test_type = "positive"

(***************************************************************************)
(* Properties of validate_test_case, checked under SpecCritique.           *)
(***************************************************************************)
\* the text _parse_validation hands to json.loads, if there is any
HasCritiqueJson(text) ==
    \/ HasFencedBlock(text)
    \/ \E k \in 1..Len(text) : text[k] \in {"oVal", "oNeg", "oNest"}

CritiqueJson(text) ==
    IF HasFencedBlock(text) THEN FencedGroup(text)
    ELSE IF \E k \in 1..Len(text) :
                /\ text[k] \in {"oVal", "oNeg"}
                /\ \A m \in 1..(k - 1) : text[m] \notin {"oVal", "oNeg", "oNest"}
    THEN <<text[Min({k \in 1..Len(text) : text[k] \in {"oVal", "oNeg"}})]>>
    ELSE <<"cut">>

IsParseFailure(validation) ==
    /\ DOMAIN validation = {"valid", "issues", "suggestions", "completeness_score"}
    /\ validation.valid = FALSE
    /\ validation.completeness_score = 0
    /\ validation.issues \in {<<"Could not parse validation response">>,
                              <<"Parsing error">>}

\* C11: when the critique holds neither a fenced block nor an object
\* literal, or the text taken from it is no valid JSON, validate_test_case
\* raises nothing and returns valid = false, completeness_score = 0 and one
\* issue that reports the parse failure.
C11_ParseFailureResult ==
    (/\ ret.done /\ call.fault = "none"
     /\ \/ ~HasCritiqueJson(call.llm_response)
        \/ JsonLoads(CritiqueJson(call.llm_response)).raised)
        => ~ret.raised /\ IsParseFailure(ret.validation)

\* C11 witness: an object literal that the pattern cuts short, which is no
\* JSON, in a critique without a fenced block
C11_Witness ==
    /\ ret.done /\ call.fault = "none"
    /\ ~HasFencedBlock(call.llm_response)
    /\ HasCritiqueJson(call.llm_response)
    /\ IsParseFailure(ret.validation)
    /\ ret.validation.issues = <<"Parsing error">>

\* C12 as stated: whatever the critique text, the value validate_test_case
\* returns has a boolean valid, a list issues, a list suggestions and a
\* completeness_score within [0, 1], and nothing else is handed to the caller.
C12_ResultIsWellFormed ==
    (ret.done /\ call.fault = "none")
        => /\ DOMAIN ret.validation
                = {"valid", "issues", "suggestions", "completeness_score"}
           /\ ret.validation.valid \in BOOLEAN
           /\ ret.validation.issues \in Seq({"step 2 is unclear",
                                             "Could not parse validation response",
                                             "Parsing error"})
           /\ ret.validation.suggestions = <<>>
           /\ ret.validation.completeness_score \in {0, 1}

\* C13 as stated: a provider error of the generation capability during
\* validate_test_case is raised to the caller, and no validation result is
\* returned in its place.
C13_ProviderErrorPropagates ==
    (ret.done /\ call.fault = "llm") => ret.raised

(***************************************************************************)
(* Further properties of the knowledge-base service, checked under Spec.   *)
(***************************************************************************)
\* the records a search call could return: those of its filter at a
\* similarity to the query of at least the threshold search applies
Matching(records, c) ==
    {r \in records :
        /\ c.source_filter # None
             => r.metadata.source_filename = c.source_filter
        /\ FracGeq(Similarity(CosineDistance(EmbedText(c.query), r.embedding)),
                   IF c.min_similarity = NoneSim \/ c.min_similarity = <<0, 1>>
                   THEN min_similarity_score ELSE c.min_similarity)}

\* C14 as stated: search returns an empty list only when no record of the
\* index matches the query and filter at or above the threshold; a failure
\* of the embedding capability or of the store is not reported as an empty
\* result.
C14_EmptyOnlyWithoutMatch ==
    (IsSearch(call) /\ ret.results = <<>>) => Matching(collection, call) = {}

(***************************************************************************)
(* Properties of batch ingestion, checked under SpecBatch.                 *)
(***************************************************************************)
IsBatch(c) == c.op \in {"ingest_multiple", "ingest_loaded"}

NotError(r) == r.status # "error"

IsSuccess(r) == r.status = "success"

\* the documents of a batch whose result is no error, in their order
Survivors(documents, results) ==
    LET Ok(i) == results[i].status # "error"
        RECURSIVE Pick(_)
        Pick(i) == IF i > Len(documents) THEN <<>>
                   ELSE (IF Ok(i) THEN <<documents[i]>> ELSE <<>>) \o Pick(i + 1)
    IN  Pick(1)

\* C15: a batch ingestion gives one result for each document, in the order
\* of the documents; successful + skipped + failed is the number of
\* documents; total_chunks is the sum of chunks_created over the successful
\* documents; and the documents that did not fail have the results they
\* would have had in a batch without the failing ones.
C15_BatchIsolatesFailures ==
    [][IsBatch(call')
        => /\ Len(ret'.results) = Len(call'.documents)
           /\ \A i \in 1..Len(call'.documents) :
                  ret'.results[i].filename = call'.documents[i].filename
           /\ ret'.successful + ret'.skipped + ret'.failed
                = Len(call'.documents)
           /\ ret'.total_chunks
                = SumChunksCreated(SelectSeq(ret'.results, IsSuccess))
           /\ SelectSeq(ret'.results, NotError)
                = IngestEach(collection, kb_cid,
                             Survivors(call'.documents, ret'.results),
                             call'.overwrite).results]_vars

\* C15 witness: the first document of a batch failed and a later one was
\* ingested
C15_Witness ==
    /\ IsBatch(call)
    /\ Len(ret.results) > 1
    /\ ret.results[1].status = "error"
    /\ ret.successful > 0
    /\ ret.total_chunks > 0

(***************************************************************************)
(* Properties of calls in flight at once, checked under SpecConcurrent.    *)
(***************************************************************************)
\* C16 as stated: when two ingests with overwrite of one filename have both
\* completed, the records of that filename are exactly the chunks of one of
\* the two documents.
C16_OverwritesDoNotInterleave ==
    (/\ threads[1].op = "ingest" /\ threads[1].pc = "done"
     /\ threads[2].op = "ingest" /\ threads[2].pc = "done")
        => StoredChunks(collection, "spec.md")
             \in {ExpectedChunks(threads[1].content),
                  ExpectedChunks(threads[2].content)}

\* the (chunk_index, text) pairs of a result list
Observed(results) ==
    {<<results[i].metadata.chunk_index, results[i].text>> :
        i \in 1..Len(results)}

\* C17 as stated: a search filtered to a filename, made while an ingest with
\* overwrite of that filename is in flight, observes all the old chunks of
\* the filename or all the new ones.
C17_SearchSeesOldOrNew ==
    (threads[2].op = "search" /\ threads[2].pc = "done")
        => Observed(threads[2].results)
             \in {ExpectedChunks(call.old),
                  ExpectedChunks(threads[1].content)}

(***************************************************************************)
(* Properties of the statistics, checked under SpecStats.                  *)
(***************************************************************************)
IsStats(c) == c.op = "stats"

\* C18 as stated: after any ingest, delete_document and clear operations the
\* statistics report the number of records of the index and the number of
\* distinct source filenames of its records, whatever the size of the index.
C18_StatsAreExact ==
    (IsStats(call) /\ call.fault = "none")
        => /\ ret.total_chunks = Cardinality(collection)
           /\ ret.unique_sources
                = Cardinality({r.metadata.source_filename : r \in collection})

(***************************************************************************)
(* Properties of clearing and of empty documents, checked under Spec.      *)
(***************************************************************************)
IsClear(c) == c.op = "clear"

\* C19: when clear_knowledge_base has succeeded, the index holds no record
\* of any filename, and the call made next finds it so: the statistics
\* report no record and no source, search returns an empty list for every
\* query, and an ingest without overwrite of a document that has a word
\* returns "success", its filename having been ingested before or not.
C19_ClearRemovesEverything ==
    [][(IsClear(call) /\ ret.result)
        => /\ collection = {}
           /\ (IsStats(call') /\ call'.fault = "none")
                => ret'.total_chunks = 0 /\ ret'.unique_sources = 0
           /\ IsSearch(call') => ret'.results = <<>>
           /\ (/\ IsIngest(call') /\ ~call'.overwrite /\ call'.fault = "none"
               /\ ExpectedChunks(call'.content) # {})
                => /\ ret'.status = "success"
                   /\ StoredChunks(collection', call'.filename)
                        = ExpectedChunks(call'.content)]_vars

\* C19 witness: a clearing of an index that held records of both filenames
C19_Witness ==
    /\ IsClear(call) /\ ret.result
    /\ call.sources = Filenames
    /\ collection = {}

Candidates(records, c) ==
    IF c.source_filter = None THEN records
    ELSE GetWhere(records, c.source_filter)

\* the distance, in halves, that a similarity 2 / (2 + d) came from
DistanceOf(similarity_score) == similarity_score[2] - 2

\* C21: search asks the index for the top_k nearest records and filters only
\* those by similarity: it returns at most top_k results (top_k_retrieval of
\* them when the caller passes none), each of them a record of the index
\* with fewer than top_k records nearer to the query than itself.
C21_FilterAfterTruncation ==
    IsSearch(call)
        => /\ Len(ret.results) <= EffectiveTopK(call.top_k)
           /\ \A i \in 1..Len(ret.results) :
                  /\ \E r \in Candidates(collection, call) :
                         /\ r.document = ret.results[i].text
                         /\ r.metadata = ret.results[i].metadata
                         /\ CosineDistance(EmbedText(call.query), r.embedding)
                              = DistanceOf(ret.results[i].similarity_score)
                  /\ Cardinality(
                         {o \in Candidates(collection, call) :
                             CosineDistance(EmbedText(call.query), o.embedding)
                                < DistanceOf(ret.results[i].similarity_score)})
                       < EffectiveTopK(call.top_k)

\* C21 witness: several records pass the threshold and top_k = 1 lets one
\* of them through
C21_Witness ==
    /\ IsSearch(call) /\ call.fault = "none"
    /\ call.top_k = 1 /\ call.min_similarity = <<2, 5>>
    /\ Cardinality(Matching(collection, call)) > 1
    /\ Len(ret.results) = 1

(***************************************************************************)
(* Properties of embed_batch, checked under SpecEmbed.                     *)
(***************************************************************************)
\* C22 as stated: embed_batch returns one vector for each text, in the order
\* of the texts; a text that is empty or white space only has the zero
\* vector at its own position, and add_chunks accepts the list.
C22_OneVectorPerText ==
    ret.done
        => /\ Len(ret.embeddings) = Len(call.texts)
           /\ \A i \in 1..Len(call.texts) :
                  ret.embeddings[i] = EmbedText(call.texts[i])
           /\ ~ret.add_raises

(***************************************************************************)
(* Properties of process_document, checked under SpecChunk.                *)
(***************************************************************************)
\* Python's ==, by way of repr(), which writes a string in quotes and a
\* number as it is: a string and a number are never equal
PyEq(x, y) == ToString(x) = ToString(y)

\* the chunks of a content are its words, in their order, numbered from 0,
\* each with the id made of the filename and its number; the ids differ
\* from one another and are made of the position alone
IndexedInSplitOrder(chunks, content, filename) ==
    LET words == SelectSeq(content, IsWord)
    IN  /\ Len(chunks) = Len(words)
        /\ \A i \in 1..Len(chunks) :
               /\ chunks[i].text = words[i]
               /\ chunks[i].chunk_index = i - 1
               /\ chunks[i].chunk_id = ChunkId(filename, i - 1)
               /\ chunks[i].source_filename = filename
        /\ \A i \in 1..Len(chunks), j \in 1..Len(chunks) :
               i # j => chunks[i].chunk_id # chunks[j].chunk_id

\* C23 amended: the n chunks of a document of filename F carry chunk_index
\* 0..n-1 in split order and the chunk_id of F and that index; the ids
\* differ pairwise and depend on the position only; the chunk_count of
\* their metadata is n written as a decimal string, whatever chunk_count
\* the document's own metadata holds.
C23_PositionalIds ==
    ret.done
        => /\ IndexedInSplitOrder(ret.chunks, call.content, call.filename)
           /\ \A i \in 1..Len(ret.chunks) :
                  ret.chunks[i].metadata.chunk_count
                     = ToString(Len(ret.chunks))

\* C23 as stated: the same, with the chunk_count of the metadata equal to
\* the number n.
C23_ChunkCountIsN ==
    ret.done
        => /\ IndexedInSplitOrder(ret.chunks, call.content, call.filename)
           /\ \A i \in 1..Len(ret.chunks) :
                  PyEq(ret.chunks[i].metadata.chunk_count, Len(ret.chunks))

\* C23 witness: a document of two words with blanks before and between
\* them, whose own metadata names another chunk_count
C23_Witness ==
    /\ ret.done
    /\ call.content = <<Blank, "c", "a">>
    /\ call.metadata = [chunk_count |-> "7"]
    /\ Len(ret.chunks) = 2
    /\ ret.chunks[2].chunk_id = ChunkId(call.filename, 1)

(***************************************************************************)
(* Properties of the upload endpoint, checked under SpecUpload.            *)
(***************************************************************************)
IsUpload(c) == c.op = "upload"

\* C24 as stated: whenever the ingestion an upload performs returns
\* "success", its chunks stored, the endpoint answers 200 with that status
\* and chunks_created; it answers with an HTTP error only when the file was
\* refused or the ingestion did not succeed.
C24_SuccessIsAnswered ==
    [][(IsUpload(call') /\ call'.accepted)
        => LET out == IngestOutcome(collection, kb_cid, call'.filename,
                                    call'.content, call'.overwrite,
                                    call'.fault)
           IN  /\ out.result.status = "success"
                    => /\ ret'.http = 200
                       /\ ret'.body.status = "success"
                       /\ ret'.body.chunks_created = out.result.chunks_created
               /\ ret'.http # 200
                    => /\ out.result.status # "success"
                       /\ StoredChunks(collection', call'.filename)
                            # ExpectedChunks(call'.content)]_vars

(***************************************************************************)
(* Properties of a failing overwrite, checked under Spec.                  *)
(***************************************************************************)
\* C25: an ingest with overwrite whose deletion went through and which then
\* returns "error", for want of chunks or because embedding or insertion
\* failed, leaves no record of the filename: the records of its previous
\* version are gone, those of other filenames are as they were.
C25_FailedOverwriteLosesOldVersion ==
    [][(/\ IsIngest(call') /\ call'.overwrite
        /\ call'.fault \in {"none", "embed", "add"}
        /\ ret'.status = "error")
        => /\ GetWhere(collection', call'.filename) = {}
           /\ collection' = collection \ GetWhere(collection, call'.filename)
           /\ deleted_count'
                = Cardinality(GetWhere(collection, call'.filename))]_vars

\* C25 witness: embedding failed after the deletion of several records
C25_Witness ==
    /\ IsIngest(call) /\ call.overwrite /\ call.fault = "embed"
    /\ ret.status = "error"
    /\ deleted_count > 1
    /\ GetWhere(collection, call.filename) = {}

\* the records of the filenames other than one
OthersThan(records, filename) ==
    {r \in records : r.metadata.source_filename # filename}

\* C26: ingest_document and delete_document of a filename, whatever they
\* return and whatever fails meanwhile, leave every record of another
\* filename in the index and as it was, and add no such record.
C26_OtherFilenamesUntouched ==
    [][(IsIngest(call') \/ IsDelete(call'))
        => OthersThan(collection', call'.filename)
             = OthersThan(collection, call'.filename)]_vars

\* C26 witness: an overwrite replaced the records of one filename beside
\* the records of another
C26_Witness ==
    /\ IsIngest(call) /\ call.overwrite /\ ret.status = "success"
    /\ deleted_count > 0
    /\ OthersThan(collection, call.filename) # {}

(***************************************************************************)
(* The two services on one index, checked under SpecGen.                   *)
(***************************************************************************)
\* the records generate_test_cases retrieves from: those at similarity 1/2
\* or more to the query
GenerationSources(records, c) ==
    {r \in records :
        FracGeq(Similarity(CosineDistance(EmbedText(c.query), r.embedding)),
                min_similarity_score)}

\* the number of records a retrieval of at most k records returns
AtMost(k, n) == IF n < k THEN n ELSE k

\* C27 as stated: whatever ingest and clear calls the knowledge-base service
\* has made, the retrieval of generate_test_cases and of validate_test_case
\* sees the records that are in the index at that moment, those ingested
\* after a clearing included.
C27_OneIndexState ==
    /\ (IsGenerate(call) /\ call.fault = "none")
          => ret.retrieved
               = AtMost(EffectiveTopK(call.top_k),
                        Cardinality(GenerationSources(collection, call)))
    /\ (IsValidate(call) /\ call.fault = "none")
          => ret.retrieved
               = AtMost(3, Cardinality(ValidationSources(collection, call)))

(***************************************************************************)
(* Properties of two first ingests at once, checked under SpecRace.        *)
(***************************************************************************)
\* C28 as stated: of two ingests without overwrite of one filename that
\* start on an index without a record of it, at most one passes the
\* existence check and inserts; when both have completed at most one has
\* returned "success", and the records of the filename are exactly the
\* chunks of one of the two documents.
C28_OneFirstIngestWins ==
    /\ ~(threads[1].pc = "checked" /\ threads[2].pc = "checked")
    /\ (threads[1].pc = "done" /\ threads[2].pc = "done")
          => /\ ~(threads[1].result = "success"
                  /\ threads[2].result = "success")
             /\ StoredChunks(collection, "spec.md")
                  \in {ExpectedChunks(threads[1].content),
                       ExpectedChunks(threads[2].content)}

(***************************************************************************)
(* Properties of the limit on test cases, checked under SpecLimit.         *)
(***************************************************************************)
\* C29 as stated: generate_test_cases returns at most max_test_cases test
\* cases, however many valid items the generation output holds.
C29_AtMostMaxCount ==
    ret.done => Len(ret.test_cases) <= call.max_test_cases

(***************************************************************************)
(* Properties of the metadata of records, checked under SpecMeta.          *)
(***************************************************************************)
\* C30 as stated: every record of the index has, in its metadata, the
\* filename of the document it was made from as source_filename and its
\* position as chunk_index, whatever metadata the document carried; so the
\* lookup by source_filename that the existence check and delete_by_filename
\* make for a filename finds every record whose id is of that filename.
C30_MetadataNamesTheDocument ==
    /\ \A r \in collection :
           /\ r.metadata.source_filename = r.id[1]
           /\ r.metadata.chunk_index = r.id[2]
    /\ \A filename \in Filenames :
           GetWhere(collection, filename)
             = {r \in collection : r.id[1] = filename}

====
